---------------------------- MODULE Spec2Model ----------------------------
(***************************************************************************)
(* The getpinfo debugfs module (getpinfo.c): a single-slot request/response *)
(* channel.  write() on the file runs getpinfo_call, read() runs            *)
(* getpinfo_return, rmmod runs getpinfo_module_exit.                        *)
(*                                                                         *)
(* Bytes are their ASCII codes.  C index i of a buffer is element i+1 of    *)
(* the sequence that models it.  A heap buffer is modelled by the prefix of *)
(* its bytes that have a known value; the bytes of a freed buffer are not   *)
(* known any more.                                                         *)
(***************************************************************************)
EXTENDS Integers, Sequences, FiniteSets, TLC

(***************************************************************************)
(* Bounds of the model.                                                    *)
(***************************************************************************)
NTasks == 2      \* user tasks that open the file
NBuf   == 2      \* distinct addresses kmalloc can hand out

(***************************************************************************)
(* Program constants.                                                      *)
(***************************************************************************)
MAX_CALL == 100  \* getpinfo.h: size of callbuf
EINVAL   == 22
EAGAIN   == 11
ENOSPC   == 28

NULL   == 0
NUL    == 0
Tasks  == 1..NTasks
Bufs   == 1..NBuf

(***************************************************************************)
(* String literals of the source, as byte sequences without terminator.    *)
(***************************************************************************)
VERB       == <<103, 101, 116, 112, 105, 110, 102, 111>>           \* "getpinfo"
HELLO      == <<104, 101, 108, 108, 111>>                          \* "hello"
FAILED_MSG == <<70, 97, 105, 108, 101, 100, 58, 32, 105, 110, 118, 97, 108,
                105, 100, 32, 111, 112, 101, 114, 97, 116, 105, 111, 110, 10>>
                                               \* "Failed: invalid operation\n"
SUCCESS_HDR == <<83, 117, 99, 99, 101, 115, 115, 58, 10>>          \* "Success:\n"
F_PID      == <<9, 67, 117, 114, 114, 101, 110, 116, 32, 80, 73, 68, 32>>
F_PARENT   == <<10, 9, 112, 97, 114, 101, 110, 116, 32>>
F_STATE    == <<10, 9, 115, 116, 97, 116, 101, 32>>
F_FLAGS    == <<10, 9, 102, 108, 97, 103, 115, 32>>
F_PRIO     == <<10, 9, 112, 114, 105, 111, 114, 105, 116, 121, 32>>
F_COMMAND  == <<10, 9, 99, 111, 109, 109, 97, 110, 100, 32>>
F_END      == <<10>>

(***************************************************************************)
(* C library functions.                                                    *)
(***************************************************************************)
\* 1-based position of the first NUL of s; 0 if it holds none.
NulAt(s) ==
    IF \A i \in 1..Len(s) : s[i] # NUL THEN 0
    ELSE CHOOSE i \in 1..Len(s) :
           s[i] = NUL /\ \A j \in 1..(i - 1) : s[j] # NUL

\* The C string held in s: the bytes before the first NUL.  A buffer without
\* a NUL is read to its end.
CStr(s) == LET k == NulAt(s) IN IF k = 0 THEN s ELSE SubSeq(s, 1, k - 1)

strlen(s) == Len(CStr(s))

\* strcmp(a, b) = 0
StrEq(a, b) == CStr(a) = CStr(b)

\* strcpy(dst, src): src and its terminator over the start of dst.
strcpy(dst, src) ==
    src \o <<NUL>> \o SubSeq(dst, Len(src) + 2, Len(dst))

\* strcat(dst, src)
strcat(dst, src) ==
    CStr(dst) \o src \o <<NUL>> \o SubSeq(dst, strlen(dst) + Len(src) + 2, Len(dst))

\* dst[i] = b for a C index i inside the known bytes of dst.
Poke(dst, i, b) == [dst EXCEPT ![i + 1] = b]

RECURSIVE Dec(_)
\* printf "%d" / "%ld"
Dec(n) ==
    IF n < 0 THEN <<45>> \o Dec(0 - n)
    ELSE IF n < 10 THEN <<48 + n>>
    ELSE Dec(n \div 10) \o <<48 + (n % 10)>>

HexDigit(d) == IF d < 10 THEN 48 + d ELSE 87 + d

RECURSIVE Hex(_)
Hex(n) == IF n < 16 THEN <<HexDigit(n)>> ELSE Hex(n \div 16) \o <<HexDigit(n % 16)>>

RECURSIVE Zeros(_)
Zeros(k) == IF k <= 0 THEN <<>> ELSE <<48>> \o Zeros(k - 1)

\* printf "%08x"
Hex8(n) == Zeros(8 - Len(Hex(n))) \o Hex(n)

\* k copies of byte b
Fill(b, k) == [i \in 1..k |-> b]

(***************************************************************************)
(* State.                                                                  *)
(*   loaded     the module is inserted and its debugfs file exists         *)
(*   call_task  the global call_task: NULL or the task that owns the slot  *)
(*   respbuf    the global respbuf: NULL or the address of a buffer        *)
(*   heap       per address: live (allocated and not freed) and the known   *)
(*              bytes stored there                                         *)
(*   memerr     memory errors committed so far                             *)
(*   last       the last file operation: its inputs and what it returned   *)
(*   produced   the response text written by the last submit that claimed  *)
(*              the slot (history)                                         *)
(*   cpu        per task, when handlers on different CPUs are followed     *)
(*              statement by statement: where the task is in its handler,  *)
(*              the handler's locals and the preemption count of its CPU   *)
(***************************************************************************)
VARIABLES loaded, call_task, respbuf, heap, memerr, last, produced, cpu

vars == <<loaded, call_task, respbuf, heap, memerr, last, produced, cpu>>

(***************************************************************************)
(* The calling task (current) and the fields the handler reads from it.    *)
(***************************************************************************)
task_pid(t)    == 40 + t          \* pid_vnr(get_task_pid(call_task, PIDTYPE_PID))
parent_pid(t)  == 1               \* pid_vnr of call_task->real_parent
task_state(t)  == 0               \* call_task->state of a running task
task_flags(t)  == 4194304 + 10 * t  \* call_task->flags
task_prio(t)   == 120             \* call_task->normal_prio

(***************************************************************************)
(* Inputs.                                                                 *)
(***************************************************************************)
\* Bytes appended to a prefix of the verb to make a payload.
Suffixes == { <<>>, <<NUL>>, <<NUL, 120>>, <<120>> }

PrefixLens == {0, 7, 8}

\* Payloads of write(): prefixes of the verb with a suffix, "hello", and
\* payloads of MAX_CALL - 1, MAX_CALL and MAX_CALL + 1 bytes.
Payloads ==
    { SubSeq(VERB, 1, k) \o x : k \in PrefixLens, x \in Suffixes }
      \cup { HELLO, Fill(120, MAX_CALL - 1),
              VERB \o Fill(120, MAX_CALL - 8), Fill(120, MAX_CALL + 1) }

\* What the stack slot of callbuf can hold on entry: zeros, non-zero garbage,
\* or the bytes an earlier call with "getpinfo\0" left behind.
StaleBufs ==
    { Fill(NUL, MAX_CALL), Fill(120, MAX_CALL),
      VERB \o Fill(NUL, MAX_CALL - 8) }

\* Capacities passed to read().
UserCaps == {0, 1, 10, 26, 27, 512}

\* How a copy between user and kernel space can end: all bytes copied, or a
\* fault at the first byte.
CopyFaults == {"none", "all"}

\* What copy_from_user / copy_to_user returns for n bytes: the number of
\* bytes it did not copy.
Uncopied(n, f) == IF f = "none" THEN 0 ELSE n

(***************************************************************************)
(* Kernel primitives.                                                      *)
(***************************************************************************)
\* kmalloc(MAX_RESP, GFP_ATOMIC) for respbuf: NULL, or an address that is not in use.
KmallocResults == {NULL} \cup { b \in Bufs : ~heap[b].live }

\* The heap after kmalloc returned p.
kmalloc(h, p) == IF p = NULL THEN h ELSE [h EXCEPT ![p].live = TRUE]

\* The buffer is not freed.
kfree_forgotten(h, p) == h

\* The heap after kfree(p).
kfree(h, p) == IF p = NULL THEN h ELSE [h EXCEPT ![p] = [live |-> FALSE, data |-> <<>>]]

\* copy_from_user(callbuf, buf, count) leaving unc bytes uncopied: the copied
\* bytes, zeros for the uncopied ones, then what callbuf held before.
copy_from_user(stale, buf, count, unc) ==
    SubSeq(buf, 1, count - unc) \o Fill(NUL, unc)
       \o SubSeq(stale, count + 1, Len(stale))

\* The known bytes of the buffer at p.
BufData(h, p) == IF p = NULL THEN <<>> ELSE h[p].data

\* The heap with the bytes of the buffer at p replaced.
Store(h, p, d) == IF p = NULL THEN h ELSE [h EXCEPT ![p].data = d]

\* Memory errors of an access through p: a null or a freed pointer.
AccessErr(h, p) ==
    IF p = NULL THEN {"null_deref"}
    ELSE IF ~h[p].live THEN {"use_after_free"}
    ELSE {}

\* Memory errors of kfree(p).
FreeErr(h, p) == IF p # NULL /\ ~h[p].live THEN {"double_free"} ELSE {}

(***************************************************************************)
(* The record of a file operation.                                         *)
(***************************************************************************)
\*   op       "init", "call" (write), "return" (read) or "exit" (rmmod)
\*   task     current
\*   buf      the bytes of the user buffer passed to write()
\*   count    the count argument
\*   ret      the value returned
\*   callstr  the string the handler found in callbuf (printk "call %s")
\*   sent     the bytes the handler handed to copy_to_user
\*   unc      the number of bytes the copy primitive did not copy
Op(op, task, buf, count, ret, callstr, sent, unc) ==
    [op |-> op, task |-> task, buf |-> buf, count |-> count, ret |-> ret,
     callstr |-> callstr, sent |-> sent, unc |-> unc]

(***************************************************************************)
(* getpinfo_call: write() on the file.                                     *)
(***************************************************************************)
\* Off by one: a count of MAX_CALL is let through.
CountTooBig_offbyone(count) == count > MAX_CALL

\* if (count >= MAX_CALL) return -EINVAL;
CountTooBig(count) == count >= MAX_CALL

\* The test of the slot left out.
SlotOccupied_unchecked == FALSE

\* if (call_task != NULL)
SlotOccupied == call_task # NULL

\* callbuf after copy_from_user and callbuf[MAX_CALL - 1] = 0.
CallBuf(stale, buf, count, unc) ==
    Poke(copy_from_user(stale, buf, count, unc), MAX_CALL - 1, NUL)

\* strcmp(callbuf, "getpinfo") != 0
NotVerb(callbuf) == ~StrEq(callbuf, VERB)

\* The report filled in from the first task, not from the caller.
RespLine_firsttask(t, callbuf) ==
    F_PID \o Dec(task_pid(1)) \o F_PARENT \o Dec(parent_pid(1))
      \o F_STATE \o Dec(task_state(1)) \o F_FLAGS \o Hex8(task_flags(1))
      \o F_PRIO \o Dec(task_prio(1)) \o F_COMMAND \o CStr(callbuf) \o F_END

\* The sprintf into resp_line.
RespLine(t, callbuf) ==
    F_PID \o Dec(task_pid(t)) \o F_PARENT \o Dec(parent_pid(t))
      \o F_STATE \o Dec(task_state(t)) \o F_FLAGS \o Hex8(task_flags(t))
      \o F_PRIO \o Dec(task_prio(t)) \o F_COMMAND \o CStr(callbuf) \o F_END

\* respbuf after the handler has generated the response for callbuf, from
\* the bytes d that kmalloc returned.
Response(d, t, callbuf) ==
    LET d0 == strcpy(d, <<>>) IN
    IF NotVerb(callbuf) THEN strcpy(d0, FAILED_MSG)
    ELSE strcat(strcpy(d0, SUCCESS_HDR), RespLine(t, callbuf))

\* Lines 48-49: the count is rejected before the slot is looked at.
CallTooBig(cur, buf) ==
    /\ last' = Op("call", cur, buf, Len(buf), 0 - EINVAL, <<>>, <<>>, 0)
    /\ UNCHANGED <<loaded, call_task, respbuf, heap, memerr, produced>>

\* The buffer reset to the empty string before the slot is tested.
CallBusy_resets(cur, buf) ==
    /\ heap' = Store(heap, respbuf, strcpy(BufData(heap, respbuf), <<>>))
    /\ last' = Op("call", cur, buf, Len(buf), 0 - EAGAIN, <<>>, <<>>, 0)
    /\ UNCHANGED <<loaded, call_task, respbuf, memerr, produced>>

\* Lines 58-61: the slot is taken.
CallBusy(cur, buf) ==
    /\ last' = Op("call", cur, buf, Len(buf), 0 - EAGAIN, <<>>, <<>>, 0)
    /\ UNCHANGED <<loaded, call_task, respbuf, heap, memerr, produced>>

\* The owner recorded before the allocation is tested.
CallNoMem_claimed(cur, buf) ==
    /\ respbuf' = NULL
    /\ call_task' = cur
    /\ last' = Op("call", cur, buf, Len(buf), 0 - ENOSPC, <<>>, <<>>, 0)
    /\ UNCHANGED <<loaded, heap, memerr, produced>>

\* Lines 63-67: kmalloc returned NULL, which is now in respbuf.
CallNoMem(cur, buf) ==
    /\ respbuf' = NULL
    /\ last' = Op("call", cur, buf, Len(buf), 0 - ENOSPC, <<>>, <<>>, 0)
    /\ UNCHANGED <<loaded, call_task, heap, memerr, produced>>

\* Lines 63-127: kmalloc returned p; the slot is claimed and the response
\* generated from what copy_from_user left in callbuf.
CallServe(cur, buf, p, stale, f) ==
    LET count   == Len(buf)
        unc     == Uncopied(count, f)
        callbuf == CallBuf(stale, buf, count, unc)
        d       == Response(heap[p].data, cur, callbuf)
    IN  /\ respbuf' = p
        /\ call_task' = cur
        /\ heap' = Store(kmalloc(heap, p), p, d)
        /\ produced' = CStr(d)
        /\ last' = Op("call", cur, buf, count, count, CStr(callbuf), <<>>, unc)
        /\ UNCHANGED <<loaded, memerr>>

getpinfo_call(cur, buf) ==
    /\ loaded
    /\ IF CountTooBig(Len(buf)) THEN CallTooBig(cur, buf)
       ELSE IF SlotOccupied THEN CallBusy(cur, buf)
       ELSE \E p \in KmallocResults :
              IF p = NULL THEN CallNoMem(cur, buf)
              ELSE \E stale \in StaleBufs, f \in CopyFaults :
                     CallServe(cur, buf, p, stale, f)

(***************************************************************************)
(* getpinfo_return: read() on the file.                                    *)
(***************************************************************************)
\* Only an empty slot is refused: any task may fetch a queued response.
NotOwner_anyone(cur) == call_task = NULL

\* Every fetch is taken for a foreign one.
NotOwner_always(cur) == TRUE

\* if (current != call_task) return 0;
NotOwner(cur) == cur # call_task

\* if (count < rc)
Truncates(count, rc) == count < rc

\* The value read() returns, given how many bytes were handed to
\* copy_to_user and how many of them it did not copy.
ReturnValue(n, unc) == unc

getpinfo_return(cur, count) ==
    /\ loaded
    /\ IF NotOwner(cur) THEN
          /\ last' = Op("return", cur, <<>>, count, 0, <<>>, <<>>, 0)
          /\ UNCHANGED <<loaded, call_task, respbuf, heap, memerr, produced>>
       ELSE
          \E f \in CopyFaults :
            LET d   == BufData(heap, respbuf)
                rc  == strlen(d) + 1
                cut == Truncates(count, rc)
                d1  == IF cut /\ count > 0 THEN Poke(d, count - 1, NUL) ELSE d
                n   == IF cut THEN count ELSE rc
                unc == Uncopied(n, f)
            IN  /\ heap' = kfree(Store(heap, respbuf, d1), respbuf)
                /\ memerr' = memerr \cup AccessErr(heap, respbuf)
                                    \cup FreeErr(heap, respbuf)
                                    \cup (IF cut /\ count = 0 THEN {"oob_write"} ELSE {})
                /\ respbuf' = NULL
                /\ call_task' = NULL
                /\ produced' = <<>>
                /\ last' = Op("return", cur, <<>>, count, ReturnValue(n, unc),
                              <<>>, SubSeq(d1, 1, n), unc)
                /\ UNCHANGED loaded

(***************************************************************************)
(* getpinfo_module_exit: rmmod.                                            *)
(***************************************************************************)
\* Unload without freeing the pending response.
getpinfo_module_exit_nofree ==
    /\ loaded
    /\ loaded' = FALSE
    /\ last' = Op("exit", NULL, <<>>, 0, 0, <<>>, <<>>, 0)
    /\ UNCHANGED <<call_task, respbuf, heap, memerr, produced>>

getpinfo_module_exit ==
    /\ loaded
    /\ loaded' = FALSE
    /\ heap' = kfree(heap, respbuf)
    /\ memerr' = memerr \cup FreeErr(heap, respbuf)
    /\ last' = Op("exit", NULL, <<>>, 0, 0, <<>>, <<>>, 0)
    /\ UNCHANGED <<call_task, respbuf, produced>>

(***************************************************************************)
(* The module after insmod, handlers running one at a time (one CPU,       *)
(* preemption disabled inside each handler).                               *)
(***************************************************************************)
\* A task outside the handlers: what it ran last (op), with which count,
\* what that returned (ret) and what it had found at the slot test (saw).
Idle(op, count, ret, saw) ==
    [pc |-> "idle", op |-> op, buf |-> <<>>, count |-> count,
     notverb |-> FALSE, unc |-> 0, saw |-> saw, depth |-> 0, ret |-> ret]

Init ==
    /\ cpu = [t \in Tasks |-> Idle("none", 0, 0, "none")]
    /\ loaded = TRUE
    /\ call_task = NULL
    /\ respbuf = NULL
    /\ heap = [b \in Bufs |-> [live |-> FALSE, data |-> <<>>]]
    /\ memerr = {}
    /\ last = Op("init", NULL, <<>>, 0, 0, <<>>, <<>>, 0)
    /\ produced = <<>>

Call ==
    /\ \E cur \in Tasks, buf \in Payloads : getpinfo_call(cur, buf)
    /\ UNCHANGED cpu

Return ==
    /\ \E cur \in Tasks, count \in UserCaps : getpinfo_return(cur, count)
    /\ UNCHANGED cpu

Exit == getpinfo_module_exit /\ UNCHANGED cpu

Next == Call \/ Return \/ Exit

Spec == Init /\ [][Next]_vars

(***************************************************************************)
(* Handlers on different CPUs.  Each task runs on a CPU of its own, so      *)
(* preempt_disable() stops nothing on the other CPUs and the statements of  *)
(* handlers run by different tasks interleave.  One step is one access to   *)
(* the shared variables call_task, respbuf and the buffer.                  *)
(***************************************************************************)
\* Payloads whose comparison with the verb is decided by the copied bytes.
SmpPayloads == { VERB \o <<NUL>>, HELLO, Fill(120, MAX_CALL) }

SmpCaps == {10, 512}

\* The stack bytes under callbuf; they do not matter for SmpPayloads.
SmpStale == Fill(120, MAX_CALL)

\* The user buffers of these runs are mapped: both copies move every byte.
SmpFaults == {"none"}

\* An execution is followed up to its first memory error: no handler is
\* entered after one, the handlers already entered run to their end.
Sound == memerr = {}

preempt_disable(r) == [r EXCEPT !.depth = @ + 1]

preempt_enable(r) == [r EXCEPT !.depth = @ - 1]

\* The handler of task t returns ret.
Leave(r, ret) == Idle(r.op, 0, ret, r.saw)

SmpFrame == UNCHANGED <<loaded, last, produced>>

\* Lines 48-56: the count test, then preempt_disable().
SmpCallEnter(t, buf) ==
    /\ loaded /\ Sound /\ cpu[t].pc = "idle"
    /\ LET r == [Idle("call", Len(buf), 0, "none") EXCEPT !.buf = buf] IN
       cpu' = [cpu EXCEPT ![t] =
                 IF CountTooBig(Len(buf)) THEN Leave(r, 0 - EINVAL)
                 ELSE [preempt_disable(r) EXCEPT !.pc = "c_test"]]
    /\ UNCHANGED <<call_task, respbuf, heap, memerr>>
    /\ SmpFrame

\* Lines 58-61: the slot test.
SmpCallTest(t) ==
    /\ cpu[t].pc = "c_test"
    /\ LET r == [cpu[t] EXCEPT !.saw = IF call_task = NULL THEN "empty" ELSE "busy"] IN
       cpu' = [cpu EXCEPT ![t] =
                 IF SlotOccupied THEN Leave(preempt_enable(r), 0 - EAGAIN)
                 ELSE [r EXCEPT !.pc = "c_alloc"]]
    /\ UNCHANGED <<call_task, respbuf, heap, memerr>>
    /\ SmpFrame

\* Line 63: respbuf = kmalloc(...).
SmpCallAlloc(t) ==
    /\ cpu[t].pc = "c_alloc"
    /\ \E p \in KmallocResults :
         /\ respbuf' = p
         /\ heap' = kmalloc(heap, p)
    /\ cpu' = [cpu EXCEPT ![t].pc = "c_check"]
    /\ UNCHANGED <<call_task, memerr>>
    /\ SmpFrame

\* The exit of the allocation failure path without preempt_enable().
SmpCallCheck_noenable(t) ==
    /\ cpu[t].pc = "c_check"
    /\ IF respbuf = NULL
       THEN /\ cpu' = [cpu EXCEPT ![t] =
                         [Leave(cpu[t], 0 - ENOSPC) EXCEPT !.depth = cpu[t].depth]]
            /\ UNCHANGED <<heap, memerr>>
       ELSE /\ heap' = Store(heap, respbuf, strcpy(heap[respbuf].data, <<>>))
            /\ memerr' = memerr \cup AccessErr(heap, respbuf)
            /\ cpu' = [cpu EXCEPT ![t].pc = "c_claim"]
    /\ UNCHANGED <<call_task, respbuf>>
    /\ SmpFrame

\* Lines 64-68: the test of respbuf, then strcpy(respbuf, "").
SmpCallCheck(t) ==
    /\ cpu[t].pc = "c_check"
    /\ IF respbuf = NULL
       THEN /\ cpu' = [cpu EXCEPT ![t] = Leave(preempt_enable(cpu[t]), 0 - ENOSPC)]
            /\ UNCHANGED <<heap, memerr>>
       ELSE /\ heap' = Store(heap, respbuf, strcpy(heap[respbuf].data, <<>>))
            /\ memerr' = memerr \cup AccessErr(heap, respbuf)
            /\ cpu' = [cpu EXCEPT ![t].pc = "c_claim"]
    /\ UNCHANGED <<call_task, respbuf>>
    /\ SmpFrame

\* Lines 73-81: call_task = current, the copy into callbuf and the strcmp.
SmpCallClaim(t) ==
    /\ cpu[t].pc = "c_claim"
    /\ call_task' = t
    /\ \E f \in SmpFaults :
         LET unc     == Uncopied(cpu[t].count, f)
             callbuf == CallBuf(SmpStale, cpu[t].buf, cpu[t].count, unc)
         IN  cpu' = [cpu EXCEPT ![t].pc = "c_resp",
                                ![t].buf = <<>>,
                                ![t].unc = unc,
                                ![t].notverb = NotVerb(callbuf)]
    /\ UNCHANGED <<respbuf, heap, memerr>>
    /\ SmpFrame

\* Lines 82-127: the response written through respbuf, from the fields of
\* call_task, then preempt_enable() and the return of count.
SmpCallRespond(t) ==
    /\ cpu[t].pc = "c_resp"
    /\ LET callbuf == IF cpu[t].notverb THEN <<NUL>> ELSE VERB \o <<NUL>>
           who     == IF call_task = NULL THEN t ELSE call_task
       IN  /\ heap' = Store(heap, respbuf,
                           Response(BufData(heap, respbuf), who, callbuf))
           /\ memerr' = memerr \cup AccessErr(heap, respbuf)
                 \cup (IF ~cpu[t].notverb /\ call_task = NULL
                       THEN {"null_deref"} ELSE {})
    /\ cpu' = [cpu EXCEPT ![t] = Leave(preempt_enable(cpu[t]), cpu[t].count)]
    /\ UNCHANGED <<call_task, respbuf>>
    /\ SmpFrame

\* Line 139: preempt_disable().
SmpReturnEnter(t, count) ==
    /\ loaded /\ Sound /\ cpu[t].pc = "idle"
    /\ cpu' = [cpu EXCEPT ![t] =
                 [preempt_disable(Idle("return", count, 0, "none"))
                    EXCEPT !.pc = "r_test"]]
    /\ UNCHANGED <<call_task, respbuf, heap, memerr>>
    /\ SmpFrame

\* Lines 141-144: the owner test.
SmpReturnTest(t) ==
    /\ cpu[t].pc = "r_test"
    /\ LET r == [cpu[t] EXCEPT !.saw = IF NotOwner(t) THEN "foreign" ELSE "owner"] IN
       cpu' = [cpu EXCEPT ![t] =
                 IF NotOwner(t) THEN Leave(preempt_enable(r), 0)
                 ELSE [r EXCEPT !.pc = "r_copy"]]
    /\ UNCHANGED <<call_task, respbuf, heap, memerr>>
    /\ SmpFrame

\* Lines 146-158: strlen, the truncation and copy_to_user, through respbuf.
SmpReturnCopy(t) ==
    /\ cpu[t].pc = "r_copy"
    /\ \E f \in SmpFaults :
         LET d     == BufData(heap, respbuf)
             rc    == strlen(d) + 1
             count == cpu[t].count
             cut   == Truncates(count, rc)
             inbuf == cut /\ count > 0 /\ count <= Len(d)
             n     == IF cut THEN count ELSE rc
         IN  /\ heap' = IF inbuf THEN Store(heap, respbuf, Poke(d, count - 1, NUL))
                        ELSE heap
             /\ memerr' = memerr \cup AccessErr(heap, respbuf)
                   \cup (IF cut /\ count = 0 THEN {"oob_write"} ELSE {})
             /\ cpu' = [cpu EXCEPT ![t].pc = "r_free",
                                    ![t].unc = Uncopied(n, f)]
    /\ UNCHANGED <<call_task, respbuf>>
    /\ SmpFrame

\* Line 160: kfree(respbuf).
SmpReturnFree(t) ==
    /\ cpu[t].pc = "r_free"
    /\ heap' = kfree(heap, respbuf)
    /\ memerr' = memerr \cup FreeErr(heap, respbuf)
    /\ cpu' = [cpu EXCEPT ![t].pc = "r_clear"]
    /\ UNCHANGED <<call_task, respbuf>>
    /\ SmpFrame

\* Lines 162-168: both globals cleared, preempt_enable(), return rc.
SmpReturnClear(t) ==
    /\ cpu[t].pc = "r_clear"
    /\ respbuf' = NULL
    /\ call_task' = NULL
    /\ cpu' = [cpu EXCEPT ![t] =
                 Leave(preempt_enable(cpu[t]), ReturnValue(0, cpu[t].unc))]
    /\ UNCHANGED <<heap, memerr>>
    /\ SmpFrame

SmpCall ==
    \/ \E t \in Tasks, buf \in SmpPayloads : SmpCallEnter(t, buf)
    \/ \E t \in Tasks : SmpCallTest(t)
    \/ \E t \in Tasks : SmpCallAlloc(t)
    \/ \E t \in Tasks : SmpCallCheck(t)
    \/ \E t \in Tasks : SmpCallClaim(t)
    \/ \E t \in Tasks : SmpCallRespond(t)

SmpReturn ==
    \/ \E t \in Tasks, count \in SmpCaps : SmpReturnEnter(t, count)
    \/ \E t \in Tasks : SmpReturnTest(t)
    \/ \E t \in Tasks : SmpReturnCopy(t)
    \/ \E t \in Tasks : SmpReturnFree(t)
    \/ \E t \in Tasks : SmpReturnClear(t)

SmpNext == SmpCall \/ SmpReturn

SpecSMP == Init /\ [][SmpNext]_vars

(***************************************************************************)
(* The module stays loaded, the handlers run one at a time (one CPU), and    *)
(* a task that owns the slot does come back to fetch its response.           *)
(***************************************************************************)
\* One payload for each outcome of the length test and of the comparison.
FairPayloads == { VERB \o <<NUL>>, HELLO, Fill(120, MAX_CALL) }

FairCaps == {10, 512}

Submit(t) ==
    /\ \E buf \in FairPayloads : getpinfo_call(t, buf)
    /\ UNCHANGED cpu

Fetch(t) ==
    /\ \E count \in FairCaps : getpinfo_return(t, count)
    /\ UNCHANGED cpu

\* The fetch of the task that owns the slot.
OwnerFetches(t) == call_task = t /\ Fetch(t)

FairNext == \E t \in Tasks : Submit(t) \/ Fetch(t)

SpecFair ==
    /\ Init /\ [][FairNext]_vars
    /\ \A t \in Tasks : WF_vars(OwnerFetches(t))

(***************************************************************************)
(* Properties.  A step of getpinfo_call leaves last'.op = "call", a step   *)
(* of getpinfo_return leaves last'.op = "return"; the unprimed variables   *)
(* are the state the handler was entered in.                               *)
(***************************************************************************)
SubmitStep == last'.op = "call"
FetchStep  == last'.op = "return"
ValidLen   == last'.count < MAX_CALL
SlotSame   == call_task' = call_task /\ respbuf' = respbuf /\ heap' = heap

\* What a fetch with capacity m hands over of the response text resp.
Delivered(resp, m) ==
    IF m >= Len(resp) + 1 THEN resp \o <<NUL>>
    ELSE IF m = 0 THEN <<>>
    ELSE SubSeq(resp, 1, m - 1) \o <<NUL>>

\* C1 (mutual exclusion): while a task owns the slot (its submit succeeded
\* and it has not fetched), a submit by any task, the owner included, with a
\* payload shorter than MAX_CALL returns -EAGAIN and leaves the recorded
\* owner, the buffer pointer and the buffer unchanged.
C1_MutualExclusion ==
    [][ (call_task # NULL /\ SubmitStep /\ ValidLen)
          => (last'.ret = 0 - EAGAIN /\ SlotSame /\ produced' = produced) ]_vars

C1_Witness ==
    /\ last.op = "call" /\ last.ret = 0 - EAGAIN
    /\ call_task # NULL /\ last.task # call_task
    /\ respbuf # NULL /\ heap[respbuf].live

\* C2 (owner correlation): while task T owns the slot, a fetch by a task
\* other than T returns 0 and changes neither the owner nor the buffer; a
\* fetch by T, also right after such a foreign fetch, hands over the
\* response that T's submit produced (cut to the capacity given).
C2_OwnerCorrelation ==
    [][ (call_task # NULL /\ FetchStep)
          => IF last'.task # call_task
             THEN last'.ret = 0 /\ last'.sent = <<>> /\ SlotSame
                    /\ produced' = produced
             ELSE last'.sent = Delivered(produced, last'.count) ]_vars

C2_Witness ==
    /\ last.op = "return" /\ last.ret = 0 /\ last.sent = <<>>
    /\ call_task # NULL /\ last.task # call_task
    /\ CStr(heap[respbuf].data) = produced

\* C3 (buffer lifecycle): a fetch by the owner, for every capacity and
\* every result of copy_to_user, leaves the slot empty: no owner, a NULL
\* buffer pointer, no buffer allocated.  In the state a fetch leaves with
\* the slot empty, a further fetch by the same task returns 0 and changes
\* nothing, and a submit shorter than MAX_CALL whose allocation succeeds
\* returns its count and makes the caller the owner.
C3_BufferLifecycle ==
    [][ /\ (call_task # NULL /\ FetchStep /\ last'.task = call_task)
            => (call_task' = NULL /\ respbuf' = NULL
                  /\ \A b \in Bufs : ~heap'[b].live)
        /\ (last.op = "return" /\ call_task = NULL /\ FetchStep
              /\ last'.task = last.task)
            => (last'.ret = 0 /\ last'.sent = <<>> /\ SlotSame)
        /\ (last.op = "return" /\ call_task = NULL /\ SubmitStep /\ ValidLen
              /\ last'.ret # 0 - ENOSPC)
            => (last'.ret = last'.count /\ call_task' = last'.task
                  /\ respbuf' # NULL /\ heap'[respbuf'].live) ]_vars

C3_Witness ==
    /\ last.op = "return" /\ last.sent # <<>>
    /\ call_task = NULL /\ respbuf = NULL
    /\ \A b \in Bufs : ~heap[b].live

\* C4 as stated (length bound): a submit of MAX_CALL bytes or more returns
\* -EINVAL and leaves the slot as it was; the next submit, of a valid length
\* on an empty slot, succeeds.
C4_AsStated ==
    [][ /\ (SubmitStep /\ ~ValidLen)
            => (last'.ret = 0 - EINVAL /\ SlotSame /\ produced' = produced)
        /\ (last.op = "call" /\ last.ret = 0 - EINVAL /\ call_task = NULL
              /\ SubmitStep /\ ValidLen)
            => last'.ret = last'.count ]_vars

\* C4 (length bound, amended): a submit of MAX_CALL bytes or more returns
\* -EINVAL and leaves the slot as it was, empty or occupied; the next
\* submit, of a valid length on an empty slot, succeeds provided its
\* allocation succeeds, and returns -ENOSPC otherwise.
C4_LengthBound ==
    [][ /\ (SubmitStep /\ ~ValidLen)
            => (last'.ret = 0 - EINVAL /\ SlotSame /\ produced' = produced)
        /\ (last.op = "call" /\ last.ret = 0 - EINVAL /\ call_task = NULL
              /\ SubmitStep /\ ValidLen)
            => IF respbuf' # NULL
               THEN last'.ret = last'.count /\ call_task' = last'.task
               ELSE last'.ret = 0 - ENOSPC /\ call_task' = NULL ]_vars

C4_Witness ==
    /\ last.op = "call" /\ last.ret = 0 - EINVAL /\ last.count >= MAX_CALL
    /\ call_task # NULL /\ last.task # call_task

\* A fetch by the owner of the slot.
OwnerFetch == call_task # NULL /\ FetchStep /\ last'.task = call_task

\* The logical length of the queued response: string length plus one.
RespLen == strlen(BufData(heap, respbuf)) + 1

\* The text is a Success report.
IsSuccess(resp) == Len(resp) >= 9 /\ SubSeq(resp, 1, 9) = SUCCESS_HDR

\* C5 (truncation): a fetch by the owner with a capacity m, 0 < m < string
\* length + 1, whose copy to user space succeeds, returns m, and the m bytes
\* handed over end with a NUL at index m-1.
C5_Truncation ==
    [][ (OwnerFetch /\ last'.count > 0 /\ last'.count < RespLen
           /\ last'.unc = 0)
          => (last'.ret = last'.count
                /\ Len(last'.sent) = last'.count
                /\ last'.sent[last'.count] = NUL) ]_vars

\* C6 (length of a full fetch): a fetch by the owner with a capacity of at
\* least string length + 1, whose copy to user space succeeds, returns the
\* string length of the response plus one (27 for the failure message).
C6_FullLength ==
    [][ (OwnerFetch /\ last'.count >= RespLen /\ last'.unc = 0)
          => last'.ret = Len(produced) + 1 ]_vars

\* C7 (unknown verb in-band): a submit on an empty slot, of at least one
\* byte and of valid length, fully copied in, whose payload read as a string
\* is not "getpinfo", and whose allocation succeeds, returns its count, makes
\* the caller the owner and queues exactly "Failed: invalid operation\n".
C7_UnknownVerb ==
    [][ (call_task = NULL /\ SubmitStep /\ ValidLen /\ respbuf' # NULL
           /\ last'.count > 0 /\ last'.unc = 0 /\ CStr(last'.buf) # VERB)
          => (last'.ret = last'.count /\ call_task' = last'.task
                /\ CStr(heap'[respbuf'].data) = FAILED_MSG) ]_vars

\* C8 (exact verb, submitted bytes only): a submit on an empty slot of
\* exactly the 8 bytes "getpinfo", without terminator, fully copied in and
\* with a successful allocation, queues the Success report.
C8_ExactVerb ==
    [][ (call_task = NULL /\ SubmitStep /\ respbuf' # NULL
           /\ last'.unc = 0 /\ last'.buf = VERB)
          => IsSuccess(CStr(heap'[respbuf'].data)) ]_vars

\* C9 as stated (stranded slot): while T owns the slot, no step but T's own
\* fetch releases or reassigns it, and every submit returns -EAGAIN.
C9_AsStated ==
    [][ call_task # NULL
          => /\ ~OwnerFetch => (call_task' = call_task /\ respbuf' = respbuf)
             /\ SubmitStep => last'.ret = 0 - EAGAIN ]_vars

\* C9 (stranded slot, amended): while T owns the slot, no step but T's own
\* fetch releases or reassigns it (unload frees the buffer); every submit
\* of valid length, T's included, returns -EAGAIN and every submit of
\* MAX_CALL bytes or more returns -EINVAL.
C9_StrandedSlot ==
    [][ call_task # NULL
          => /\ ~OwnerFetch => (call_task' = call_task /\ respbuf' = respbuf)
             /\ (~OwnerFetch /\ last'.op # "exit") => heap' = heap
             /\ SubmitStep
                  => last'.ret = IF ValidLen THEN 0 - EAGAIN ELSE 0 - EINVAL ]_vars

C9_Witness ==
    /\ call_task # NULL /\ last.op = "call" /\ last.task = call_task
    /\ last.ret = 0 - EAGAIN /\ heap[respbuf].live

\* C10 (allocation failure): a submit of valid length on an empty slot
\* whose allocation fails returns -ENOSPC and leaves the slot empty: no
\* owner, NULL buffer pointer, heap unchanged; -ENOSPC is returned in no
\* other case.  The next submit of valid length whose allocation succeeds
\* claims the slot.
C10_AllocFailure ==
    [][ /\ (call_task = NULL /\ SubmitStep /\ ValidLen /\ respbuf' = NULL)
            => (last'.ret = 0 - ENOSPC /\ call_task' = NULL /\ heap' = heap)
        /\ (SubmitStep /\ last'.ret = 0 - ENOSPC)
            => (call_task = NULL /\ call_task' = NULL /\ respbuf' = NULL)
        /\ (last.op = "call" /\ last.ret = 0 - ENOSPC /\ SubmitStep
              /\ ValidLen /\ respbuf' # NULL)
            => (last'.ret = last'.count /\ call_task' = last'.task
                  /\ heap'[respbuf'].live) ]_vars

C10_Witness ==
    /\ last.op = "call" /\ last.ret = 0 - ENOSPC
    /\ call_task = NULL /\ respbuf = NULL
    /\ \A b \in Bufs : ~heap[b].live

\* C11 (unload terminal state): once the module is unloaded the slot is
\* empty: no owner recorded, no buffer allocated, nothing freed twice, and
\* no pointer left in respbuf.
C11_UnloadEmpty ==
    ~loaded => /\ call_task = NULL
               /\ respbuf = NULL
               /\ \A b \in Bufs : ~heap[b].live
               /\ "double_free" \notin memerr

\* The queued text is a complete response: the failure message, or a
\* Success report that ends with a newline.
CompleteResponse(resp) ==
    \/ resp = FAILED_MSG
    \/ IsSuccess(resp) /\ resp[Len(resp)] = 10

ReportHead(t) == SUCCESS_HDR \o F_PID \o Dec(task_pid(t)) \o F_PARENT

\* C14 (response/owner correlation): while task T owns the slot, the text
\* in the buffer is the text T's submit wrote, and it is the failure
\* message or a Success report carrying T's own PID.
C14_ResponseOwner ==
    (loaded /\ call_task # NULL)
       => LET resp == CStr(heap[respbuf].data) IN
          /\ resp = produced
          /\ last.op = "call" /\ last.ret = last.count => last.task = call_task
          /\ \/ resp = FAILED_MSG
             \/ /\ Len(resp) > Len(ReportHead(call_task))
                /\ SubSeq(resp, 1, Len(ReportHead(call_task)))
                      = ReportHead(call_task)

C14_Witness ==
    /\ loaded /\ call_task = 2 /\ last.op = "return" /\ last.task = 1
    /\ Len(produced) > Len(ReportHead(2))
    /\ SubSeq(produced, 1, Len(ReportHead(2))) = ReportHead(2)

\* C16 as stated (exclusive buffer ownership): while a response is queued,
\* no step but the owner's fetch frees the buffer or changes its bytes or
\* the pointer to it.
C16_AsStated ==
    [][ (call_task # NULL /\ ~OwnerFetch)
          => (respbuf' = respbuf /\ heap' = heap) ]_vars

\* C16 (exclusive buffer ownership, amended): while a response is queued,
\* no submit (busy or oversize) and no foreign fetch frees the buffer or
\* changes its bytes or the pointer to it; the buffer is freed by the
\* owner's fetch or by module unload, and by nothing else.
C16_BufferFrame ==
    [][ (call_task # NULL /\ ~OwnerFetch)
          => IF last'.op = "exit"
             THEN respbuf' = respbuf /\ ~heap'[respbuf].live
                    /\ \A b \in Bufs \ {respbuf} : heap'[b] = heap[b]
             ELSE respbuf' = respbuf /\ heap' = heap ]_vars

C16_Witness ==
    /\ ~loaded /\ last.op = "exit" /\ call_task # NULL
    /\ respbuf # NULL /\ ~heap[respbuf].live

\* C17 (fetch stays inside the buffer): no fetch stores outside the
\* response buffer.
C17_InBounds == "oob_write" \notin memerr

\* C18 (no leak, no double free on one CPU): while the module is loaded
\* the only allocated buffer, if any, is the one respbuf points to; after
\* unload no buffer is allocated; no buffer is ever freed twice or used
\* after it was freed.
C18_NoLeak ==
    /\ loaded => \A b \in Bufs : heap[b].live <=> (b = respbuf)
    /\ ~loaded => \A b \in Bufs : ~heap[b].live
    /\ memerr \cap {"double_free", "use_after_free", "null_deref"} = {}

C18_Witness ==
    /\ ~loaded /\ respbuf # NULL /\ call_task # NULL
    /\ \A b \in Bufs : ~heap[b].live

\* Steps of the handlers on different CPUs.
InSubmit(t) == cpu[t].pc \in {"c_test", "c_alloc", "c_check", "c_claim", "c_resp"}

InFetch(t) == cpu[t].pc \in {"r_test", "r_copy", "r_free", "r_clear"}

Returned(t, op) == cpu[t].pc = "idle" /\ cpu[t].op = op

Succeeded(t) == Returned(t, "call") /\ cpu[t].ret > 0

C15_SuccessSawEmpty ==
    \A t \in Tasks :
        (cpu[t].pc \in {"c_alloc", "c_check", "c_claim", "c_resp"} \/ Succeeded(t))
            => cpu[t].saw = "empty"

\* Both tasks saw the slot empty, both allocated a buffer (two are live),
\* and both submits have returned success while one slot holds one owner.
C15_Witness ==
    /\ \A t \in Tasks : Succeeded(t) /\ cpu[t].saw = "empty"
    /\ Cardinality({ b \in Bufs : heap[b].live }) = 2
    /\ call_task # NULL /\ respbuf # NULL

\* C19: memory safety across CPUs.  In every interleaving of the steps of
\* the handlers no access or free goes through a NULL or freed pointer, no
\* buffer is freed twice, and every allocated buffer is still reachable
\* through respbuf.
C19_MemorySafe ==
    /\ memerr = {}
    /\ \A b \in Bufs : heap[b].live => b = respbuf

\* The last handler was a submit of task t.
SubmitBy(t) == last.op = "call" /\ last.task = t

ToldTryAgain(t) == SubmitBy(t) /\ last.ret = 0 - EAGAIN

SubmitSucceeded(t) == SubmitBy(t) /\ last.ret > 0

\* Task t goes on submitting, with a valid length and the allocation
\* succeeding each time.
KeepsRetrying(t) ==
    /\ []<>SubmitBy(t)
    /\ [](SubmitBy(t) => last.ret \notin {0 - EINVAL, 0 - ENOSPC})

\* Every occupied slot becomes empty again.
SlotEmptied == \A t \in Tasks : (call_task = t) ~> (call_task = NULL)

\* A submit of t that takes the slot.
TakesSlot(t) == call_task = NULL /\ Submit(t) /\ call_task' = t

\* C20 as stated: every occupied slot becomes empty again, and a task that
\* keeps retrying after "try again" eventually has a submit succeed.
C20_AsStated ==
    /\ SlotEmptied
    /\ \A t \in Tasks : KeepsRetrying(t) => (ToldTryAgain(t) ~> SubmitSucceeded(t))

\* The submits of t are strongly fair: if the slot is empty again and again,
\* t takes it again and again (a submit of t can take the slot exactly when
\* call_task = NULL).
StronglyFair(t) == []<>(call_task = NULL) => []<><<TakesSlot(t)>>_vars

\* C20: progress on one CPU.  When every owner fetches, every occupied slot
\* becomes empty again; a task told "try again" eventually has a submit
\* succeed if its submits are strongly fair, that is if it does not miss
\* every one of the moments at which the slot is empty.
C20_Progress ==
    /\ SlotEmptied
    /\ \A t \in Tasks : StronglyFair(t) => (ToldTryAgain(t) ~> SubmitSucceeded(t))

\* Task t has just been told "try again" while another task owns the slot.
C20_Witness ==
    \E t \in Tasks :
        /\ ToldTryAgain(t)
        /\ call_task \notin {NULL, t}
        /\ respbuf # NULL /\ loaded

=============================================================================
